---- MODULE Spec2Model ----
(***************************************************************************)
(* A model of book-blend-backend: the Goodreads shelf paginators, the      *)
(* library builder of util/rss_feed_books.py and the blend computation of  *)
(* util/blend.py.                                                          *)
(***************************************************************************)
EXTENDS Integers, Sequences, FiniteSets, TLC

\* ------------------------------------------------------------ bounds ----
\* the longest short (last) feed page the server hands out item by item
MaxShort == 2
\* the number of full pages a shelf can hold (a shelf is finite)
MaxFullPages == 2

\* --------------------------------------------------------- constants ----
\* the full-page size the RSS paginator compares a page against
PageSize == 100

\* ------------------------------------------------------------- state ----
VARIABLES
    pc,          \* position of the running function
    page,        \* fetch_users_books: page
    all_dfs,     \* fetch_users_books: all_dfs, one parsed frame per page
    full_df,     \* fetch_users_books: full_df after pd.concat
    sort_index,  \* the frame's index after sort_values, before reset_index
    result,      \* the value returned (the library), <<>> before the return
    error,       \* the exception that left the function, "" when none
    requested,   \* the page numbers requested from the transport, in order
    served,      \* the responses the transport gave, in order
    empty_page_count,  \* helper_functions.get_all_goodreads_user_books
    info_future,   \* blend_two_users: future_user1_info, future_user2_info
    books_future,  \* blend_two_users: future_user1_books, future_user2_books
    user_info,     \* blend_two_users: user1_info, user2_info (<<>> before the read)
    user_books,    \* blend_two_users: user1_books, user2_books
    quality,       \* blend_two_users: u1_status, u2_status, preliminary, skip_ai
    ai_calls,      \* the number of calls of get_ai_insights
    ai_insights,   \* blend_two_users: ai_insights
    combined_results,  \* blend_two_users: the value returned, <<>> before
    INSIGHT_STRUCTURE,  \* ai_insights.py: the module global, its genre_insights
    insight_requests,  \* the requests of the process in their insights stage
    parser             \* goodreads_parser.py: the call and its shelf loop, <<>> when idle

rssVars == <<page, all_dfs, full_df, sort_index, result, requested, served>>

blendVars == <<info_future, books_future, user_info, user_books, quality, ai_calls,
               ai_insights, combined_results>>

insightVars == <<INSIGHT_STRUCTURE, insight_requests>>

parserVars == <<parser>>

vars == <<pc, error, rssVars, empty_page_count, blendVars, insightVars, parserVars>>

\* what the RSS builder leaves alone
notRss == <<empty_page_count, blendVars, insightVars, parserVars>>

\* ------------------------------------------------- the feed (inputs) ----
Shelves == {"read", "to-read", "currently-reading"}

\* what <user_shelves> of a feed item can hold: nothing, a shelf, a custom shelf
EmbeddedShelves == {""} \cup Shelves \cup {"favorites"}

BookIds == {1, 2}

\* a feed <item>: its <book_id>, <user_shelves>, <author_name>, <user_rating>
\* and <book_published> texts (<<>> for an empty text) and its nested <book>
\* element (<<>> when the item has none) with its id attribute and its
\* <num_pages> text
Item(b, e, s) ==
    [book_id |-> b, book_elem |-> e, user_shelves |-> s,
     author_name |-> "Ann", user_rating |-> <<>>, book_published |-> <<>>]

BookElem(id, pages) == <<[id |-> id, num_pages |-> pages]>>

Items ==
    {Item(b, <<>>, s) : b \in BookIds, s \in EmbeddedShelves}
    \cup {Item(b, BookElem(2, <<>>), "") : b \in BookIds}

ShelfCycle == <<"read", "to-read", "currently-reading">>

GenItem(p, i) == Item(p * 1000 + i, <<>>, ShelfCycle[(i % 3) + 1])

\* a full page of the shelf, page p
FullPage(p) == [i \in 1..PageSize |-> GenItem(p, i)]

\* the 37-item last page of the pagination scenario
Page37(p) == [i \in 1..37 |-> GenItem(p, i)]

ShortPages == UNION {[1..n -> Items] : n \in 0..MaxShort}

OkResponse(items) == [status |-> "ok", items |-> items]

FailureKinds == {"http_error", "malformed", "no_channel"}

\* what the transport can answer to the request for page p
Responses(p) ==
    {[status |-> k, items |-> <<>>] : k \in FailureKinds}
    \cup {OkResponse(s) : s \in ShortPages}
    \cup {OkResponse(Page37(p))}
    \cup (IF p <= MaxFullPages THEN {OkResponse(FullPage(p))} ELSE {})

\* ------------------------------------------------ rss_feed_books.py ----
\* fetch_goodreads_rss + parse_rss: the exception a failed page raises
\* (raise_for_status, ET.fromstring, root.find("channel").findall)
PageException(xml) ==
    CASE xml.status = "http_error" -> "HTTPError"
      [] xml.status = "malformed"  -> "ParseError"
      [] xml.status = "no_channel" -> "AttributeError"
      [] OTHER -> ""

\* parse_rss: one row of the frame from one <item>
ParseItem(item) ==
    [book_id        |-> IF item.book_elem # <<>> THEN item.book_elem[1].id ELSE item.book_id,
     link           |-> item.book_id,
     user_shelves   |-> IF item.user_shelves = "" THEN "read" ELSE item.user_shelves,
     author         |-> item.author_name,
     user_rating    |-> item.user_rating,
     num_pages      |-> IF item.book_elem # <<>> THEN item.book_elem[1].num_pages ELSE <<>>,
     book_published |-> item.book_published]

parse_rss(xml) == [i \in 1..Len(xml.items) |-> ParseItem(xml.items[i])]

\* fetch_users_books, line 79: the page that ends the loop
IsLastPage_OffByOne(df) == Len(df) = 0 \/ Len(df) <= PageSize

IsLastPage_ShortOnly(df) == Len(df) > 0 /\ Len(df) < PageSize

IsLastPage(df) == Len(df) = 0 \/ Len(df) < PageSize

RECURSIVE concat(_)
concat(dfs) == IF dfs = <<>> THEN <<>> ELSE Head(dfs) \o concat(Tail(dfs))

\* the sort key of lines 89-92
shelf_order(s) ==
    CASE s = "currently-reading" -> 0
      [] s = "to-read" -> 1
      [] s = "read" -> 2
      [] OTHER -> 3

IndexesWithKey(df, k) == SelectSeq([i \in 1..Len(df) |-> i], LAMBDA i : shelf_order(df[i].user_shelves) = k)

Reverse(s) == [i \in 1..Len(s) |-> s[Len(s) + 1 - i]]

\* the index order a stable sort by shelf_order gives
StableOrder(df) ==
    IndexesWithKey(df, 0) \o IndexesWithKey(df, 1) \o IndexesWithKey(df, 2) \o IndexesWithKey(df, 3)

\* the index order with the ties of key k reversed
TiesReversed(df, k) ==
    LET g(j) == IF j = k THEN Reverse(IndexesWithKey(df, j)) ELSE IndexesWithKey(df, j)
    IN  g(0) \o g(1) \o g(2) \o g(3)

\* sort_values("shelf_order"), line 93: kind defaults to "quicksort", which
\* is not stable, so rows of equal key come out in any order. The model
\* offers the stable order and, per key, the order with that key's ties
\* reversed.
sort_values(df) == {StableOrder(df)} \cup {TiesReversed(df, k) : k \in 0..3}

Take(df, idx) == [i \in 1..Len(idx) |-> df[idx[i]]]

\* one iteration of the while loop, lines 75-84
FetchPage ==
    /\ pc = "fetch"
    \* a shelf of at most MaxFullPages full pages is exhausted by then
    /\ page <= MaxFullPages + 1
    /\ \E xml \in Responses(page) :
        /\ requested' = Append(requested, page)
        /\ served' = Append(served, xml)
        /\ IF xml.status # "ok"
             THEN /\ pc' = "raised"
                  /\ error' = PageException(xml)
                  /\ UNCHANGED <<page, all_dfs>>
             ELSE LET df == parse_rss(xml) IN
                  /\ all_dfs' = Append(all_dfs, df)
                  /\ error' = error
                  /\ IF IsLastPage(df)
                       THEN pc' = "concat" /\ page' = page
                       ELSE pc' = "fetch" /\ page' = page + 1
    /\ UNCHANGED <<full_df, sort_index, result>>
    /\ UNCHANGED notRss

\* lines 86-102: concat, the sort by shelf priority, the return
Finish ==
    /\ pc = "concat"
    /\ full_df' = concat(all_dfs)
    /\ IF full_df' = <<>>
         \* a frame of no rows has no columns: full_df["user_shelves"]
         THEN /\ pc' = "raised"
              /\ error' = "KeyError"
              /\ UNCHANGED <<sort_index, result>>
         ELSE /\ \E idx \in sort_values(full_df') :
                    /\ sort_index' = idx
                    /\ result' = Take(full_df', idx)
              /\ pc' = "done"
              /\ error' = error
    /\ UNCHANGED <<page, all_dfs, requested, served>>
    /\ UNCHANGED notRss

\* ------------------------------------------- properties: the RSS builder ----
Short(xml) == xml.status = "ok" /\ Len(xml.items) < PageSize

Full(xml) == xml.status = "ok" /\ Len(xml.items) = PageSize

ServedSizes == [i \in 1..Len(served) |-> Len(served[i].items)]

\* C1: fetch_users_books requests pages 1, 2, 3, ... in order; every page
\* before the last requested one was a full page of 100 records, the loop
\* has stopped exactly when the last served page is short (fewer than 100
\* records, empty included), the merged frame is the concatenation of the
\* requested pages' records in page order, and pages of sizes
\* [100, 100, 37] end the loop after the third page with 237 records.
C1_PaginationStopsAfterFirstShortPage ==
    /\ \A i \in 1..Len(requested) : requested[i] = i
    /\ Len(served) = Len(requested)
    /\ \A i \in 1..Len(served) : i < Len(served) => Full(served[i])
    /\ (pc = "fetch" /\ served # <<>>) => Full(served[Len(served)])
    /\ pc \in {"concat", "done"} => Short(served[Len(served)])
    /\ pc = "done" =>
          /\ full_df = concat([i \in 1..Len(served) |-> parse_rss(served[i])])
          /\ Len(result) = Len(full_df)
    /\ (Len(served) >= 3 /\ SubSeq(ServedSizes, 1, 3) = <<100, 100, 37>>) =>
          /\ Len(served) = 3
          /\ pc # "fetch"
          /\ pc = "done" => Len(result) = 237

C1_Witness ==
    /\ pc = "done"
    /\ requested = <<1, 2, 3>>
    /\ ServedSizes = <<100, 100, 37>>
    /\ Len(result) = 237

\* C2: a failed page fetch (HTTP error, malformed markup, missing channel)
\* never leaves the library build as an exception.
C2_PageFailureNeverPropagates ==
    (\E i \in 1..Len(served) : served[i].status # "ok") => error = ""

\* C4: when the feed yields zero records, the build returns an empty
\* library, the shelf ordering of the empty frame included.
C4_EmptyFeedGivesEmptyLibrary ==
    (/\ served # <<>>
     /\ \A i \in 1..Len(served) : served[i].status = "ok" /\ served[i].items = <<>>
     /\ pc \notin {"fetch", "concat"})
    => (pc = "done" /\ error = "" /\ result = <<>>)

\* C6: the returned library is in shelf priority order, and two records of
\* the same shelf keep the relative order they had in the merged pages.
C6_StableShelfPriorityOrder ==
    pc = "done" =>
        \A i \in 1..(Len(sort_index) - 1) :
            LET a == sort_index[i]
                b == sort_index[i + 1]
                ka == shelf_order(full_df[a].user_shelves)
                kb == shelf_order(full_df[b].user_shelves)
            IN  ka < kb \/ (ka = kb /\ a < b)

\* C7: the book_id values of a returned library are pairwise distinct.
C7_BookIdsDistinct ==
    pc = "done" =>
        \A i, j \in 1..Len(result) : i # j => result[i].book_id # result[j].book_id

\* C8: every record of a library built with scope "all" carries one of the
\* three shelves.
C8_ShelfIsOneOfThree ==
    pc = "done" => \A i \in 1..Len(result) : result[i].user_shelves \in Shelves

\* blend_two_users is not running
BlendIdle ==
    /\ info_future = <<>>
    /\ books_future = <<>>
    /\ user_info = <<>>
    /\ user_books = <<>>
    /\ quality = <<>>
    /\ ai_calls = 0
    /\ ai_insights = <<>>
    /\ combined_results = <<>>

\* ai_insights.py, lines 13-36: the module as imported, no request in its
\* insights stage
InsightIdle ==
    /\ INSIGHT_STRUCTURE = [user1_preferences |-> {}, user2_preferences |-> {}, shared_genres |-> {}]
    /\ insight_requests = <<>>

\* no paginator is running
RssIdle ==
    /\ page = 1
    /\ all_dfs = <<>>
    /\ full_df = <<>>
    /\ sort_index = <<>>
    /\ result = <<>>
    /\ requested = <<>>
    /\ served = <<>>
    /\ empty_page_count = 0
    /\ parser = <<>>

Init ==
    /\ pc = "fetch"
    /\ error = ""
    /\ RssIdle
    /\ BlendIdle
    /\ InsightIdle

Next == FetchPage \/ Finish

Spec == Init /\ [][Next]_vars

\* ------------------------------------------------ helper_functions.py ----
\* the number of pages of the HTML shelf list that hold rows
MaxHtmlPages == 3

\* get_all_goodreads_user_books, line 251
max_empty_pages == 2

\* the rows of one HTML page: the goodreads_id of each row
HtmlPages == UNION {[1..n -> BookIds] : n \in 1..MaxShort}

HtmlFailureKinds == {"http_error", "no_table", "no_header"}

\* what the transport can answer to the request for HTML page p: a failure,
\* a table without rows (the page after the last one) or a page of rows
HtmlResponses(p) ==
    {[status |-> k, items |-> <<>>] : k \in HtmlFailureKinds}
    \cup {OkResponse(<<>>)}
    \cup (IF p <= MaxHtmlPages THEN {OkResponse(s) : s \in HtmlPages} ELSE {})

\* helper_functions.get_goodreads_user_books_by_page: the frame of a page;
\* every failure and a table without rows give the empty frame
helper_page_books(resp) ==
    IF resp.status = "ok" THEN [i \in 1..Len(resp.items) |-> [goodreads_id |-> resp.items[i]]]
    ELSE <<>>

\* one iteration of the while loop, lines 255-280
HelperFetchPage ==
    /\ pc = "helper_loop"
    /\ empty_page_count < max_empty_pages
    /\ \E resp \in HtmlResponses(page) :
        LET page_books == helper_page_books(resp) IN
        /\ requested' = Append(requested, page)
        /\ served' = Append(served, resp)
        /\ IF page_books = <<>>
             THEN /\ empty_page_count' = empty_page_count + 1
                  /\ all_dfs' = all_dfs
             ELSE /\ empty_page_count' = 0
                  /\ all_dfs' = Append(all_dfs, page_books)
    /\ page' = page + 1
    /\ UNCHANGED <<pc, full_df, sort_index, result, error, blendVars, insightVars, parserVars>>

\* lines 282-289: the loop has ended, the pages are combined and returned
HelperReturn ==
    /\ pc = "helper_loop"
    /\ empty_page_count >= max_empty_pages
    /\ result' = concat(all_dfs)
    /\ pc' = "done"
    /\ UNCHANGED <<page, all_dfs, full_df, sort_index, error, requested, served,
                   empty_page_count, parserVars, blendVars, insightVars>>

InitHelper ==
    /\ pc = "helper_loop"
    /\ error = ""
    /\ RssIdle
    /\ BlendIdle
    /\ InsightIdle

NextHelper == HelperFetchPage \/ HelperReturn

SpecHelper == InitHelper /\ [][NextHelper]_vars

\* C3: once a page fetch has failed, the paginator requests no further
\* page of the shelf, and the records of the pages before the failure are
\* in the result.
C3_NoPageAfterFailure ==
    /\ \A i \in 1..Len(served) : served[i].status # "ok" => i = Len(served)
    /\ pc = "done" =>
          result = concat([i \in 1..Len(served) |-> helper_page_books(served[i])])

\* ------------------------------------------------------ util/blend.py ----
\* exact arithmetic on non-negative fractions [n, d]
RECURSIVE GCD(_, _)
GCD(a, b) == IF b = 0 THEN a ELSE GCD(b, a % b)

Rat(n, d) == LET g == GCD(n, d) IN [n |-> n \div g, d |-> d \div g]

RZero == Rat(0, 1)

ROne == Rat(1, 1)

RHalf == Rat(1, 2)

RAdd(a, b) ==
    LET l == (a.d \div GCD(a.d, b.d)) * b.d
    IN  Rat(a.n * (l \div a.d) + b.n * (l \div b.d), l)

RScale(k, a) == Rat(k * a.n, a.d)

RLeq(a, b) == a.n * b.d <= b.n * a.d

RMin(a, b) == IF RLeq(a, b) THEN a ELSE b

Min_First(a, b) == a

Min(a, b) == IF a <= b THEN a ELSE b

Max_Sum(a, b) == a + b

Max(a, b) == IF a >= b THEN a ELSE b

Abs(a) == IF a >= 0 THEN a ELSE 0 - a

\* round(): a / b to the nearest integer, a tie to the even one
RoundDiv(a, b) ==
    LET q == a \div b
        r == a % b
    IN  IF 2 * r < b THEN q
        ELSE IF 2 * r > b THEN q + 1
        ELSE IF q % 2 = 0 THEN q ELSE q + 1

RECURSIVE SeqSum(_)
SeqSum(xs) == IF xs = <<>> THEN 0 ELSE Head(xs) + SeqSum(Tail(xs))

\* df[column].dropna(): the values of a column that are present
DropNa(df, column) ==
    LET present == SelectSeq(df, LAMBDA r : r[column] # <<>>)
    IN  [i \in 1..Len(present) |-> present[i][column][1]]

ColumnSet(df, column) == {df[i][column] : i \in 1..Len(df)}

\* the values of xs in ascending order
RECURSIVE SortInts(_)
SortInts(xs) ==
    IF xs = <<>> THEN <<>>
    ELSE LET m == CHOOSE i \in 1..Len(xs) : \A j \in 1..Len(xs) : xs[i] <= xs[j]
         IN  <<xs[m]>> \o SortInts(SubSeq(xs, 1, m - 1) \o SubSeq(xs, m + 1, Len(xs)))

\* Series.median(), as twice the median (a whole number)
TwiceMedian(xs) ==
    LET v == SortInts(xs)
        n == Len(v)
    IN  IF n % 2 = 1 THEN 2 * v[(n + 1) \div 2] ELSE v[n \div 2] + v[n \div 2 + 1]

\* filter_shelf_books
filter_shelf_books(df, shelf_name) == SelectSeq(df, LAMBDA r : r.user_shelves = shelf_name)

\* calculate_page_metrics: the median page length of the read shelf, as
\* twice its value, <<>> for None
median_page_length(df_read) ==
    LET pages == DropNa(df_read, "num_pages")
    IN  IF pages = <<>> THEN <<>> ELSE <<TwiceMedian(pages)>>

\* calculate_rating_metrics: the mean of the ratings above 0, rounded to two
\* decimals, in hundredths, <<>> for None
avg_rating(df) ==
    LET ratings == SelectSeq(DropNa(df, "user_rating"), LAMBDA x : x > 0)
    IN  IF ratings = <<>> THEN <<>>
        ELSE <<RoundDiv(100 * SeqSum(ratings), Len(ratings))>>

ratings_given(df) == Len(SelectSeq(DropNa(df, "user_rating"), LAMBDA x : x > 0))

\* calculate_book_overlap_metrics
common_books_count(df1, df2) ==
    Cardinality(ColumnSet(df1, "book_id") \cap ColumnSet(df2, "book_id"))

common_read_books_count(df1_read, df2_read) ==
    Cardinality(ColumnSet(df1_read, "book_id") \cap ColumnSet(df2_read, "book_id"))

\* int(a / b): the quotient with its fraction cut off, towards zero
Trunc(a, b) == IF a >= 0 THEN a \div b ELSE 0 - ((0 - a) \div b)

\* calculate_publication_year_metrics: int(mean), <<>> for None
avg_pub_year(df_read) ==
    LET years == DropNa(df_read, "book_published")
    IN  IF years = <<>> THEN <<>> ELSE <<Trunc(SeqSum(years), Len(years))>>

\* calculate_era_metrics: era_ranges
era_ranges ==
    <<[era |-> "pre_1900", start |-> 0, end |-> 1900],
      [era |-> "1900_1950", start |-> 1900, end |-> 1950],
      [era |-> "1950_1980", start |-> 1950, end |-> 1980],
      [era |-> "1980_2000", start |-> 1980, end |-> 2000],
      [era |-> "2000_2010", start |-> 2000, end |-> 2010],
      [era |-> "2010_present", start |-> 2010, end |-> 3000]>>

\* the number of dated read books per era, in the order of era_ranges
era_dist(df_read) ==
    LET years == DropNa(df_read, "book_published")
    IN  [e \in 1..Len(era_ranges) |->
            Len(SelectSeq(years, LAMBDA y : era_ranges[e].start <= y /\ y < era_ranges[e].end))]

\* the era percentages, rounded to one decimal, in tenths of a percent
era_pct(df_read) ==
    LET dist == era_dist(df_read)
        total == SeqSum(dist)
    IN  [e \in 1..Len(era_ranges) |->
            IF total > 0 THEN RoundDiv(dist[e] * 1000, total) ELSE 0]

\* era_similarity: the dot product of the two fractional distributions as a
\* percentage rounded to one decimal, in tenths of a percent
era_similarity(df1_read, df2_read) ==
    LET d1 == era_dist(df1_read)
        d2 == era_dist(df2_read)
        t1 == SeqSum(d1)
        t2 == SeqSum(d2)
    IN  IF t1 > 0 /\ t2 > 0
          THEN RoundDiv(1000 * SeqSum([e \in 1..Len(era_ranges) |-> d1[e] * d2[e]]), t1 * t2)
          ELSE 0

\* find_common_authors: common_authors_count
common_authors_count(df1, df2) ==
    Cardinality(ColumnSet(df1, "author") \cap ColumnSet(df2, "author"))

\* .iloc[0] of a selection with at least one row
iloc_last(rows) == rows[Len(rows)]

iloc0(rows) == rows[1]

\* get_oldest_book_details: the details, <<>> for None
get_oldest_book_details(df_read) ==
    LET years == DropNa(df_read, "book_published") IN
    IF years = <<>> THEN <<>>
    ELSE LET oldest_book_year == SortInts(years)[1]
             oldest_book == iloc0(SelectSeq(df_read,
                                LAMBDA r : r.book_published = <<oldest_book_year>>))
         IN  <<[year |-> oldest_book.book_published[1], book_id |-> oldest_book.book_id]>>

\* get_longest_book_details: the details, <<>> for None
get_longest_book_details(df_read) ==
    LET pages == DropNa(df_read, "num_pages") IN
    IF pages = <<>> THEN <<>>
    ELSE LET longest_book_pages == SortInts(pages)[Len(pages)]
             longest_book == iloc0(SelectSeq(df_read,
                                LAMBDA r : r.num_pages = <<longest_book_pages>>))
         IN  <<[pages |-> longest_book.num_pages[1], book_id |-> longest_book.book_id]>>

\* calculate_blend_metrics: the metrics the scorer and the data-quality
\* check read
calculate_blend_metrics(df1, df2) ==
    LET df1_read == filter_shelf_books(df1, "read")
        df2_read == filter_shelf_books(df2, "read")
    IN  [user1_total_book_count |-> Len(df1),
         user2_total_book_count |-> Len(df2),
         user1_read_count |-> Len(df1_read),
         user2_read_count |-> Len(df2_read),
         user1_to_read_count |-> Len(filter_shelf_books(df1, "to-read")),
         user2_to_read_count |-> Len(filter_shelf_books(df2, "to-read")),
         user1_currently_reading_count |-> Len(filter_shelf_books(df1, "currently-reading")),
         user2_currently_reading_count |-> Len(filter_shelf_books(df2, "currently-reading")),
         user1_median_page_length |-> median_page_length(df1_read),
         user2_median_page_length |-> median_page_length(df2_read),
         user1_ratings_given |-> ratings_given(df1),
         user2_ratings_given |-> ratings_given(df2),
         user1_avg_rating |-> avg_rating(df1),
         user2_avg_rating |-> avg_rating(df2),
         common_books_count |-> common_books_count(df1, df2),
         common_read_books_count |-> common_read_books_count(df1_read, df2_read),
         user1_avg_pub_year |-> avg_pub_year(df1_read),
         user2_avg_pub_year |-> avg_pub_year(df2_read),
         user1_era_distribution |-> era_pct(df1_read),
         user2_era_distribution |-> era_pct(df2_read),
         era_similarity |-> era_similarity(df1_read, df2_read),
         common_authors_count |-> common_authors_count(df1, df2),
         user1_oldest_book_details |-> get_oldest_book_details(df1_read),
         user2_oldest_book_details |-> get_oldest_book_details(df2_read),
         user1_longest_book_details |-> get_longest_book_details(df1_read),
         user2_longest_book_details |-> get_longest_book_details(df2_read)]

\* compute_blend_score: weights, in hundredths
weights ==
    [common_books |-> 25, common_authors |-> 10, genres |-> 25, era |-> 15,
     rating |-> 10, length |-> 10, year |-> 5]

\* 1 - min(1, diff / cap), which is never below 0
Proximity_NoClamp(diff, cap) == Rat(cap - diff, cap)

Proximity(diff, cap) == Rat(cap - Min(cap, diff), cap)

\* compute_blend_score, lines 381-387: the genres component
sim_genre(insights) ==
    LET denom_genres == Max(1, Min(Cardinality(insights.user1_preferences),
                                   Cardinality(insights.user2_preferences)))
    IN  RMin(ROne, Rat(Cardinality(insights.shared_genres), denom_genres))

\* compute_blend_score: the seven components, unrounded
blend_components(df1, df2, metrics, insights) ==
    LET denom_rr == Max(1, Min(metrics.user1_read_count, metrics.user2_read_count))
        sim_rr == RMin(ROne, Rat(metrics.common_read_books_count, denom_rr))
        denom_any == Max(1, Min(metrics.user1_total_book_count, metrics.user2_total_book_count))
        sim_any == RMin(ROne, Rat(metrics.common_books_count, denom_any))
        union_authors == Cardinality(ColumnSet(df1, "author") \cup ColumnSet(df2, "author"))
        r1 == metrics.user1_avg_rating
        r2 == metrics.user2_avg_rating
        m1 == metrics.user1_median_page_length
        m2 == metrics.user2_median_page_length
        y1 == metrics.user1_avg_pub_year
        y2 == metrics.user2_avg_pub_year
    IN  [common_books |-> RAdd(RScale(7, [n |-> sim_rr.n, d |-> sim_rr.d * 10]),
                               RScale(3, [n |-> sim_any.n, d |-> sim_any.d * 10])),
         common_authors |-> RMin(ROne, Rat(metrics.common_authors_count, Max(1, union_authors))),
         genres |-> sim_genre(insights),
         era |-> Rat(metrics.era_similarity, 1000),
         rating |-> IF r1 # <<>> /\ r2 # <<>> THEN Proximity(Abs(r1[1] - r2[1]), 400) ELSE RHalf,
         length |-> IF m1 # <<>> /\ m2 # <<>> THEN Proximity(Abs(m1[1] - m2[1]), 800) ELSE RHalf,
         year |-> IF y1 # <<>> /\ y2 # <<>> THEN Proximity(Abs(y1[1] - y2[1]), 50) ELSE RHalf]

ComponentNames == {"common_books", "common_authors", "genres", "era", "rating", "length", "year"}

RECURSIVE WeightedSum(_, _)
WeightedSum(c, names) ==
    IF names = {} THEN RZero
    ELSE LET k == CHOOSE x \in names : TRUE
         IN  RAdd(RScale(weights[k], c[k]), WeightedSum(c, names \ {k}))

\* compute_blend_score: the score rounded to one decimal, in tenths, and the
\* components rounded to three decimals, in thousandths
compute_blend_score(df1, df2, metrics, insights) ==
    LET c == blend_components(df1, df2, metrics, insights)
        total == WeightedSum(c, ComponentNames)
    IN  [score |-> RoundDiv(10 * total.n, total.d),
         components |-> [k \in ComponentNames |-> RoundDiv(1000 * c[k].n, c[k].d)],
         weights |-> weights]

\* blend_two_users, _status, lines 539-544
StatusLow_ReadOnly(total, read) == read < 3

StatusLow(total, read) == total < 5 \/ read < 3

StatusModerate(total, read) == total < 10 \/ read < 5

status(total, read) ==
    IF StatusLow(total, read) THEN "low"
    ELSE IF StatusModerate(total, read) THEN "moderate"
    ELSE "ok"

\* blend_two_users, line 551
SkipAi_Never(u1_status, u2_status) == FALSE

SkipAi(u1_status, u2_status) == u1_status = "low" /\ u2_status = "low"

\* ---- the inputs of a blend request ----
\* the largest read shelf and the size of a non-empty to-read shelf
MaxRead == 5
MaxToRead == 5

Users == {1, 2}

\* item k of user u's feed
BlendItem(u, k, shelf) ==
    LET id == IF shelf = "to-read" THEN 50 + k ELSE k + (u - 1) IN
    [book_id |-> id,
     book_elem |-> BookElem(id, IF k % 2 = 1 THEN <<100 * k + 10 * u>> ELSE <<>>),
     user_shelves |-> IF shelf = "read" THEN "" ELSE shelf,
     author_name |-> IF k % 2 = 0 THEN "Ann" ELSE IF u = 1 THEN "Bob" ELSE "Cy",
     user_rating |-> IF shelf = "read" THEN <<(k + u) % 6>> ELSE <<0>>,
     book_published |-> IF k % 3 = 0 THEN <<>> ELSE <<1880 + 25 * k>>]

\* the feed of a user with r read and t to-read books
BlendFeed(u, r, t) ==
    [k \in 1..r |-> BlendItem(u, k, "read")] \o [k \in 1..t |-> BlendItem(u, k, "to-read")]

\* what the transport can answer to the request for page 1 of user u's feed
BlendResponses(u) ==
    {[status |-> k, items |-> <<>>] : k \in FailureKinds}
    \cup {OkResponse(BlendFeed(u, r, t)) : r \in 0..MaxRead, t \in {0, MaxToRead}}

\* fetch_users_books on a feed of one short page: what the task ends with
fetch_users_books(xml) ==
    IF xml.status # "ok"
      THEN {[state |-> "raised", exception |-> PageException(xml), books |-> <<>>, fetched |-> <<>>]}
    ELSE LET df == concat(<<parse_rss(xml)>>) IN
         IF df = <<>>
           THEN {[state |-> "raised", exception |-> "KeyError", books |-> <<>>, fetched |-> <<0>>]}
           ELSE {[state |-> "done", exception |-> "", books |-> Take(df, idx), fetched |-> <<Len(df)>>] :
                    idx \in sort_values(df)}

\* get_goodreads_user_info: the answer of the profile page
InfoOutcomes ==
    {[state |-> "raised", exception |-> "Exception", name |-> ""],
     [state |-> "done", exception |-> "", name |-> "Ann"]}

Running == [state |-> "running"]

\* ---- ai_insights.py ----
GenreSample == {"Fantasy", "History"}

NoGenres == [user1_preferences |-> {}, user2_preferences |-> {}, shared_genres |-> {}]

\* what get_ai_insights returns: an error (no books, or the LLM call failed),
\* or the sanitized genre lists with shared_genres their intersection
get_ai_insights(books1, books2) ==
    IF books1 = <<>> \/ books2 = <<>>
      THEN {[error |-> TRUE, genre_insights |-> NoGenres]}
      ELSE {[error |-> TRUE, genre_insights |-> NoGenres]}
           \cup {[error |-> FALSE,
                  genre_insights |-> [user1_preferences |-> g1, user2_preferences |-> g2,
                                      shared_genres |-> g1 \cap g2]] :
                    g1 \in SUBSET GenreSample, g2 \in SUBSET GenreSample}

\* ---- blend_two_users ----
\* a task of the thread pool ends: get_goodreads_user_info(user_id)
InfoTask ==
    \E u \in Users :
        /\ info_future # <<>>
        /\ info_future[u].state = "running"
        /\ \E o \in InfoOutcomes : info_future' = [info_future EXCEPT ![u] = o]
        /\ UNCHANGED <<pc, error, rssVars, empty_page_count, parserVars, insightVars, books_future, user_info,
                       user_books, quality, ai_calls, ai_insights, combined_results>>

\* a task of the thread pool ends: fetch_users_books(user_id, shelf, "json")
BooksTask ==
    \E u \in Users :
        /\ books_future # <<>>
        /\ books_future[u].state = "running"
        /\ \E xml \in BlendResponses(u) : \E o \in fetch_users_books(xml) :
              books_future' = [books_future EXCEPT ![u] = o]
        /\ UNCHANGED <<pc, error, rssVars, empty_page_count, parserVars, insightVars, info_future, user_info,
                       user_books, quality, ai_calls, ai_insights, combined_results>>

\* lines 480-481: future_user<u>_info.result()["user"]
ResultInfo(u, here, next) ==
    /\ pc = here
    /\ info_future[u].state # "running"
    /\ IF info_future[u].state = "raised"
         THEN /\ error' = info_future[u].exception
              /\ pc' = "exit_with"
              /\ UNCHANGED user_info
         ELSE /\ user_info' = [user_info EXCEPT ![u] = <<info_future[u].name>>]
              /\ pc' = next
              /\ UNCHANGED error
    /\ UNCHANGED <<rssVars, empty_page_count, parserVars, insightVars, info_future, books_future, user_books,
                   quality, ai_calls, ai_insights, combined_results>>

\* lines 482-483 with a result() that does not block
ResultBooks_NoWait(u, here, next) ==
    /\ pc = here
    /\ IF books_future[u].state = "raised"
         THEN /\ error' = books_future[u].exception
              /\ pc' = "exit_with"
              /\ UNCHANGED user_books
         ELSE /\ user_books' = [user_books EXCEPT ![u] =
                                  <<IF books_future[u].state = "done"
                                      THEN books_future[u].books ELSE <<>> >>]
              /\ pc' = next
              /\ UNCHANGED error
    /\ UNCHANGED <<rssVars, empty_page_count, parserVars, insightVars, info_future, books_future, user_info,
                   quality, ai_calls, ai_insights, combined_results>>

\* lines 482-483: future_user<u>_books.result()
ResultBooks(u, here, next) ==
    /\ pc = here
    /\ books_future[u].state # "running"
    /\ IF books_future[u].state = "raised"
         THEN /\ error' = books_future[u].exception
              /\ pc' = "exit_with"
              /\ UNCHANGED user_books
         ELSE /\ user_books' = [user_books EXCEPT ![u] = <<books_future[u].books>>]
              /\ pc' = next
              /\ UNCHANGED error
    /\ UNCHANGED <<rssVars, empty_page_count, parserVars, insightVars, info_future, books_future, user_info,
                   quality, ai_calls, ai_insights, combined_results>>

\* the end of the with block: the executor waits for every task, then the
\* function goes on, or the exception of a result() leaves it
ExitWith ==
    /\ pc = "exit_with"
    /\ \A u \in Users : info_future[u].state # "running" /\ books_future[u].state # "running"
    /\ pc' = IF error # "" THEN "raised" ELSE "compute"
    /\ UNCHANGED <<error, rssVars, empty_page_count, parserVars, blendVars, insightVars>>

\* lines 485-581: the metrics, the data quality, the insights, the score
Compute ==
    /\ pc = "compute"
    /\ LET df1 == user_books[1][1]
           df2 == user_books[2][1]
       IN
       IF df1 = <<>> \/ df2 = <<>>
         \* pd.DataFrame([]) has no columns: df["user_shelves"]
         THEN /\ pc' = "raised"
              /\ error' = "KeyError"
              /\ UNCHANGED <<quality, ai_calls, ai_insights, combined_results>>
         ELSE LET blend_metrics == calculate_blend_metrics(df1, df2)
                  u1_status == status(blend_metrics.user1_total_book_count, blend_metrics.user1_read_count)
                  u2_status == status(blend_metrics.user2_total_book_count, blend_metrics.user2_read_count)
                  preliminary == u1_status # "ok" \/ u2_status # "ok"
                  skip_ai == SkipAi(u1_status, u2_status)
              IN
              /\ quality' = [u1_status |-> u1_status, u2_status |-> u2_status,
                             preliminary |-> preliminary, skip_ai |-> skip_ai]
              /\ \E insights \in (IF skip_ai THEN {[skipped |-> TRUE]}
                                  ELSE get_ai_insights(df1, df2)) :
                    /\ ai_insights' = <<insights>>
                    /\ ai_calls' = IF skip_ai THEN ai_calls ELSE ai_calls + 1
                    /\ combined_results' =
                          <<[blend |-> compute_blend_score(df1, df2, blend_metrics,
                                          IF skip_ai THEN NoGenres ELSE insights.genre_insights)
                                       @@ [preliminary |-> preliminary,
                                           note |-> IF preliminary
                                                      THEN "Limited data for one or both users; score may be less stable."
                                                      ELSE ""],
                             metrics |-> blend_metrics,
                             names |-> <<user_info[1][1], user_info[2][1]>>]>>
              /\ pc' = "done"
              /\ UNCHANGED error
    /\ UNCHANGED <<rssVars, empty_page_count, parserVars, insightVars, info_future, books_future, user_info, user_books>>

\* lines 470-477: the four tasks are submitted
InitBlend ==
    /\ pc = "result_info1"
    /\ error = ""
    /\ RssIdle
    /\ InsightIdle
    /\ info_future = [u \in Users |-> Running]
    /\ books_future = [u \in Users |-> Running]
    /\ user_info = [u \in Users |-> <<>>]
    /\ user_books = [u \in Users |-> <<>>]
    /\ quality = <<>>
    /\ ai_calls = 0
    /\ ai_insights = <<>>
    /\ combined_results = <<>>

NextBlend ==
    \/ InfoTask
    \/ BooksTask
    \/ ResultInfo(1, "result_info1", "result_info2")
    \/ ResultInfo(2, "result_info2", "result_books1")
    \/ ResultBooks(1, "result_books1", "result_books2")
    \/ ResultBooks(2, "result_books2", "exit_with")
    \/ ExitWith
    \/ Compute

SpecBlend == InitBlend /\ [][NextBlend]_vars

\* ---- properties of blend_two_users ----
Finished == pc \in {"done", "raised"}

\* the blend of a finished request
Blend == combined_results[1].blend

\* the classification of a user, as the specification words it
Classified(total, read) ==
    IF total < 5 \/ read < 3 THEN "low"
    ELSE IF total < 10 \/ read < 5 THEN "moderate"
    ELSE "ok"

Class1 ==
    Classified(combined_results[1].metrics.user1_total_book_count,
               combined_results[1].metrics.user1_read_count)

Class2 ==
    Classified(combined_results[1].metrics.user2_total_book_count,
               combined_results[1].metrics.user2_read_count)

\* a user's feed was served and held no item
EmptyLibrary(u) == books_future[u].state # "running" /\ books_future[u].fetched = <<0>>

\* C5: when the library of one or both users has zero records and nothing
\* else fails, the request completes with a blend that has a score and
\* preliminary = true; an empty library never makes the computation fail.
C5_EmptyLibraryStillBlends ==
    (/\ Finished
     /\ \E u \in Users : EmptyLibrary(u)
     /\ \A u \in Users : info_future[u].state = "done" /\ books_future[u].fetched # <<>>)
    => (pc = "done" /\ Blend.preliminary /\ Blend.score \in 0..1000)

\* C9: each user is classified low when total<5 or read<3, otherwise moderate
\* when total<10 or read<5, otherwise ok; whenever one of the two users is not
\* ok the returned blend carries preliminary = true and a note, and it still
\* carries a computed score.
C9_SparseDataMarksPreliminary ==
    pc = "done" =>
        /\ quality.u1_status = Class1
        /\ quality.u2_status = Class2
        /\ (Class1 # "ok" \/ Class2 # "ok") =>
              /\ Blend.preliminary
              /\ Blend.note # ""
              /\ Blend.score \in 0..1000

\* one user is ok and the other is low by the total alone
C9_Witness ==
    /\ pc = "done"
    /\ Class1 = "ok"
    /\ Class2 = "low"
    /\ combined_results[1].metrics.user2_read_count >= 3
    /\ Blend.preliminary
    /\ Blend.score > 0

\* C10: when both users are classified low, get_ai_insights is never invoked
\* during the request, the genres component of the blend is 0, and the result
\* has preliminary = true.
C10_BothLowSkipsInsights ==
    (pc = "done" /\ Class1 = "low" /\ Class2 = "low") =>
        /\ ai_calls = 0
        /\ Blend.components.genres = 0
        /\ Blend.preliminary

\* both users are low, the request is answered, and the other components
\* give a score
C10_Witness ==
    /\ pc = "done"
    /\ Class1 = "low"
    /\ Class2 = "low"
    /\ ai_calls = 0
    /\ Blend.components.genres = 0
    /\ Blend.score > 0

\* C12: the four fetches run as concurrent tasks and the metrics computation
\* starts only after all four have completed; what blend_two_users holds of a
\* task is the result of a finished task, in every interleaving.
C12_MetricsAfterAllFourTasks ==
    /\ pc \in {"compute", "done"} =>
          \A u \in Users : info_future[u].state = "done" /\ books_future[u].state = "done"
    /\ \A u \in Users :
          /\ (user_info # <<>> /\ user_info[u] # <<>>) =>
                (info_future[u].state = "done" /\ user_info[u] = <<info_future[u].name>>)
          /\ (user_books # <<>> /\ user_books[u] # <<>>) =>
                (books_future[u].state = "done" /\ user_books[u] = <<books_future[u].books>>)

\* the blend was computed from the libraries of the two finished tasks
C12_Witness ==
    /\ pc = "done"
    /\ combined_results # <<>>
    /\ \A u \in Users : books_future[u].state = "done" /\ user_books[u] = <<books_future[u].books>>
    /\ combined_results[1].metrics.user1_total_book_count = Len(books_future[1].books)
    /\ combined_results[1].metrics.user2_total_book_count = Len(books_future[2].books)

\* ------------------------- ai_insights.py: requests sharing a process ----
\* the requests one process serves; get_blend is a plain def, so they run in
\* the threads of the server's pool
Requests == {1, 2}

\* a label the model returns that is not in GENRE_TAXONOMY
OffTaxonomy == "Steampunk"

\* the genre lists the model's JSON can hold
LlmGenreLists == {{}, {"Fantasy"}, {"Fantasy", OffTaxonomy}, {"History"}}

\* what a call of get_ai_insights meets: no books to analyse, the API call
\* raises, the content is not JSON, or a JSON object with or without the
\* genre_insights key
LlmResponses ==
    {[status |-> k, genre_insights |-> <<>>] : k \in {"no_books", "raise", "unparsable", "ok"}}
    \cup {[status |-> "ok",
           genre_insights |-> <<[user1_preferences |-> g1, user2_preferences |-> g2,
                                 shared_genres |-> g1 \cap g2]>>] :
             g1 \in LlmGenreLists, g2 \in LlmGenreLists}

\* _filter_and_cap_genres: the labels of the taxonomy, each once (the cap of
\* MAX_USER_GENRES = 8 is above the lists of LlmGenreLists)
filter_and_cap_genres(genres) == genres \cap GenreSample

\* validate_and_structure_insights: result = INSIGHT_STRUCTURE.copy() is a
\* shallow copy, so result["genre_insights"][key] = ... assigns into the
\* dict of the module global; the value is the global after the call
validate_and_structure_insights(structure, insights) ==
    IF insights.genre_insights = <<>> THEN structure ELSE insights.genre_insights[1]

\* _sanitize_and_finalize: gi is the genre_insights dict of the validated
\* result, which is the dict of the module global as it is at this moment
sanitize_and_finalize(structure) ==
    LET u1 == filter_and_cap_genres(structure.user1_preferences)
        u2 == filter_and_cap_genres(structure.user2_preferences)
    IN  [genre_insights |-> [user1_preferences |-> u1, user2_preferences |-> u2,
                             shared_genres |-> u1 \cap u2]]

\* compute_blend_score, line 382: (ai_insights or {}).get("genre_insights", {})
\* with the defaults of lines 383-385
GenreInsightsOf_ErrorPayload(ai) ==
    IF "genre_insights" \in DOMAIN ai THEN ai.genre_insights
    ELSE IF "insights" \in DOMAIN ai THEN ai.insights
    ELSE NoGenres

GenreInsightsOf(ai) ==
    IF "genre_insights" \in DOMAIN ai THEN ai.genre_insights ELSE NoGenres

\* the genres component of the blend of a returned insights value, in thousandths
GenresComponent(ai) ==
    LET g == sim_genre(GenreInsightsOf(ai)) IN RoundDiv(1000 * g.n, g.d)

\* a request enters its insights stage: get_ai_insights is called and the
\* collaborator answers; a failure is returned as an error value
LlmCall ==
    \E r \in Requests : \E resp \in LlmResponses :
        /\ pc = "serving"
        /\ r \notin DOMAIN insight_requests
        /\ LET returned ==
                 IF resp.status = "no_books" THEN <<[error |-> TRUE]>>
                 ELSE IF resp.status # "ok"
                   \* lines 333-337: the payload is the module global itself
                   THEN <<[error |-> TRUE, insights |-> INSIGHT_STRUCTURE]>>
                 ELSE <<>>
           IN insight_requests' =
                 (r :> [pc |-> IF resp.status = "ok" THEN "validate" ELSE "done",
                        response |-> resp,
                        returned |-> returned,
                        genres |-> IF returned = <<>> THEN <<>> ELSE <<GenresComponent(returned[1])>>])
                 @@ insight_requests
        /\ UNCHANGED <<pc, error, rssVars, empty_page_count, parserVars, blendVars, INSIGHT_STRUCTURE>>

\* generate_insights_with_llm, line 322
Validate ==
    \E r \in DOMAIN insight_requests :
        /\ pc = "serving"
        /\ insight_requests[r].pc = "validate"
        /\ INSIGHT_STRUCTURE' =
              validate_and_structure_insights(INSIGHT_STRUCTURE, insight_requests[r].response)
        /\ insight_requests' = [insight_requests EXCEPT ![r].pc = "sanitize"]
        /\ UNCHANGED <<pc, error, rssVars, empty_page_count, parserVars, blendVars>>

\* generate_insights_with_llm, lines 323-331, and the genres component the
\* scorer takes from the returned value
Sanitize ==
    \E r \in DOMAIN insight_requests :
        /\ pc = "serving"
        /\ insight_requests[r].pc = "sanitize"
        /\ LET returned == sanitize_and_finalize(INSIGHT_STRUCTURE) IN
           insight_requests' = [insight_requests EXCEPT
                                  ![r].pc = "done",
                                  ![r].returned = <<returned>>,
                                  ![r].genres = <<GenresComponent(returned)>>]
        /\ UNCHANGED <<pc, error, rssVars, empty_page_count, parserVars, blendVars, INSIGHT_STRUCTURE>>

InitInsights ==
    /\ pc = "serving"
    /\ error = ""
    /\ RssIdle
    /\ BlendIdle
    /\ InsightIdle

NextInsights == LlmCall \/ Validate \/ Sanitize

SpecInsights == InitInsights /\ [][NextInsights]_vars

\* ---- properties of the insights stage ----
Failed(resp) == resp.status \in {"no_books", "raise", "unparsable"}

\* what get_ai_insights returns for a response in a process that served no
\* other request
FreshReturn(resp) ==
    IF resp.status = "no_books" THEN [error |-> TRUE]
    ELSE IF resp.status # "ok" THEN [error |-> TRUE, insights |-> NoGenres]
    ELSE sanitize_and_finalize(validate_and_structure_insights(NoGenres, resp))

\* C11: when the genre/insight collaborator fails (the call raises, the
\* content is unparsable, or an error is reported), the request still gets a
\* value back and the genres component of its blend is 0.
C11_InsightFailureGivesZeroGenres ==
    \A r \in DOMAIN insight_requests :
        (insight_requests[r].pc = "done" /\ Failed(insight_requests[r].response)) =>
            /\ insight_requests[r].returned # <<>>
            /\ "error" \in DOMAIN insight_requests[r].returned[1]
            /\ insight_requests[r].genres = <<0>>

\* the call of a request raised while the module global holds the genre
\* lists of another request, and the component is 0
C11_Witness ==
    \E r \in DOMAIN insight_requests :
        /\ insight_requests[r].pc = "done"
        /\ insight_requests[r].response.status = "raise"
        /\ "insights" \in DOMAIN insight_requests[r].returned[1]
        /\ insight_requests[r].returned[1].insights.shared_genres # {}
        /\ insight_requests[r].genres = <<0>>

\* C14: no mutable state is shared across requests: the genre lists of a
\* request, and the genres component they feed, depend only on the response
\* the collaborator gave to that request, whatever other requests ran before
\* it or interleave with it.
C14_NoStateSharedAcrossRequests ==
    \A r \in DOMAIN insight_requests :
        insight_requests[r].pc = "done" =>
            /\ GenreInsightsOf(insight_requests[r].returned[1])
                 = GenreInsightsOf(FreshReturn(insight_requests[r].response))
            /\ insight_requests[r].genres
                 = <<GenresComponent(FreshReturn(insight_requests[r].response))>>

\* ------------------ the metrics engine and the scorer on given libraries ----
\* the longest library handed to the scorer
MaxLibLen == 2

\* a row of a library, as parse_rss leaves it
Row(id, shelf, author, rating, pages, year) ==
    [book_id |-> id, link |-> id, user_shelves |-> shelf, author |-> author,
     user_rating |-> rating, num_pages |-> pages, book_published |-> year]

\* an old short book rated 5, a recent long book rated 1, a book on to-read,
\* and a read book with no rating, no page count and no year
RowPool ==
    {Row(1, "read", "Ann", <<5>>, <<100>>, <<1850>>),
     Row(2, "read", "Bob", <<1>>, <<900>>, <<2015>>),
     Row(3, "to-read", "Ann", <<0>>, <<>>, <<>>),
     Row(4, "read", "Cy", <<0>>, <<>>, <<>>)}

\* the libraries: fetch_users_books returns at least one row
Libraries == UNION {[1..n -> RowPool] : n \in 1..MaxLibLen}

Signal(g1, g2, shared) ==
    [user1_preferences |-> g1, user2_preferences |-> g2, shared_genres |-> shared]

\* genre signals: none, as _sanitize_and_finalize leaves them, and one whose
\* shared list is longer than a preference list
GenreSignals ==
    {NoGenres,
     Signal({"Fantasy"}, {"Fantasy"}, {"Fantasy"}),
     Signal({"Fantasy", "History"}, {"History"}, {"History"}),
     Signal({"Fantasy"}, {}, {"Fantasy", "History"})}

\* the signal with the two users' preference lists swapped
Swapped(signal) ==
    Signal(signal.user2_preferences, signal.user1_preferences, signal.shared_genres)

\* blend_two_users, lines 486-489 and 566, on the libraries as given
Scored(df1, df2, signal) ==
    LET blend_metrics == calculate_blend_metrics(df1, df2)
    IN  [blend |-> compute_blend_score(df1, df2, blend_metrics, signal),
         metrics |-> blend_metrics]

\* the score of (user 1, user 2)
Score ==
    /\ pc = "score"
    /\ combined_results' = <<Scored(user_books[1][1], user_books[2][1], ai_insights[1])>>
    /\ pc' = "scored"
    /\ UNCHANGED <<error, rssVars, empty_page_count, parserVars, insightVars, info_future, books_future,
                   user_info, user_books, quality, ai_calls, ai_insights>>

\* the score of (user 2, user 1)
ScoreSwapped ==
    /\ pc = "scored"
    /\ combined_results' =
          Append(combined_results,
                 Scored(user_books[2][1], user_books[1][1], Swapped(ai_insights[1])))
    /\ pc' = "swapped"
    /\ UNCHANGED <<error, rssVars, empty_page_count, parserVars, insightVars, info_future, books_future,
                   user_info, user_books, quality, ai_calls, ai_insights>>

InitScore ==
    /\ pc = "score"
    /\ error = ""
    /\ RssIdle
    /\ InsightIdle
    /\ info_future = <<>>
    /\ books_future = <<>>
    /\ user_info = <<>>
    /\ user_books \in [Users -> {<<l>> : l \in Libraries}]
    /\ quality = <<>>
    /\ ai_calls = 0
    /\ ai_insights \in {<<g>> : g \in GenreSignals}
    /\ combined_results = <<>>

NextScore == Score \/ ScoreSwapped

SpecScore == InitScore /\ [][NextScore]_vars

\* ---- properties of the scorer ----
Lib(u) == user_books[u][1]

ReadIds(df) == ColumnSet(filter_shelf_books(df, "read"), "book_id")

\* C13: the scorer is symmetric: with the two libraries exchanged and the two
\* preference lists of the genre signal swapped, the score and all seven
\* components are the same.
C13_ScorerSymmetric ==
    pc = "swapped" =>
        /\ combined_results[1].blend.score = combined_results[2].blend.score
        /\ \A k \in ComponentNames :
              combined_results[1].blend.components[k] = combined_results[2].blend.components[k]

\* two libraries of different sizes and a signal with different lists
C13_Witness ==
    /\ pc = "swapped"
    /\ Len(Lib(1)) < Len(Lib(2))
    /\ combined_results[1].metrics.user1_read_count < combined_results[1].metrics.user2_read_count
    /\ ai_insights[1].user1_preferences # ai_insights[1].user2_preferences
    /\ combined_results[1].blend.components.common_books \in 1..999
    /\ combined_results[2].blend.score = combined_results[1].blend.score

\* C15: for every pair of libraries and every genre signal the score is in
\* [0,100], each of the seven components is in [0,1], and the weights are the
\* fixed 0.25, 0.10, 0.25, 0.15, 0.10, 0.10, 0.05, which sum to 1.0.
C15_ScoreAndComponentsInRange ==
    \A i \in 1..Len(combined_results) :
        LET b == combined_results[i].blend IN
        /\ b.score \in 0..1000
        /\ DOMAIN b.components = ComponentNames
        /\ \A k \in ComponentNames : b.components[k] \in 0..1000
        /\ b.weights = [common_books |-> 25, common_authors |-> 10, genres |-> 25, era |-> 15,
                        rating |-> 10, length |-> 10, year |-> 5]
        /\ b.weights.common_books + b.weights.common_authors + b.weights.genres + b.weights.era
             + b.weights.rating + b.weights.length + b.weights.year = 100

\* the page lengths and the years are further apart than the caps, and the
\* shared list of the signal is longer than a preference list
C15_Witness ==
    /\ pc = "scored"
    /\ combined_results[1].blend.components.length = 0
    /\ combined_results[1].blend.components.year = 0
    /\ combined_results[1].blend.components.rating = 0
    /\ Cardinality(ai_insights[1].shared_genres) > Cardinality(ai_insights[1].user1_preferences)
    /\ combined_results[1].blend.components.genres = 1000

\* C16: the common_books component is exactly 1.0 whenever one user's entire
\* read shelf is a subset of the other user's read shelf.
C16_ReadSubsetGivesFullCommonBooks ==
    (pc = "scored" /\ (ReadIds(Lib(1)) \subseteq ReadIds(Lib(2))
                        \/ ReadIds(Lib(2)) \subseteq ReadIds(Lib(1)))) =>
        combined_results[1].blend.components.common_books = 1000

\* C17: for two libraries that each consist of one and the same book on the
\* read shelf, with the same rating and the same page count, the components
\* common_books, rating and length are 1.0.
C17_IdenticalSingleBook ==
    (/\ pc = "scored"
     /\ Lib(1) = Lib(2)
     /\ Len(Lib(1)) = 1
     /\ Lib(1)[1].user_shelves = "read"
     /\ Lib(1)[1].user_rating # <<>> /\ Lib(1)[1].user_rating[1] > 0
     /\ Lib(1)[1].num_pages # <<>>) =>
        /\ combined_results[1].blend.components.common_books = 1000
        /\ combined_results[1].blend.components.rating = 1000
        /\ combined_results[1].blend.components.length = 1000

C17_Witness ==
    /\ pc = "scored"
    /\ Lib(1) = <<Row(2, "read", "Bob", <<1>>, <<900>>, <<2015>>)>>
    /\ Lib(2) = Lib(1)
    /\ combined_results[1].blend.components.common_books = 1000
    /\ combined_results[1].blend.components.rating = 1000
    /\ combined_results[1].blend.components.length = 1000

\* --------------------------- the era and year metrics of one read shelf ----
\* the largest number of read books of one era
MaxPerEra == 2

\* a year of each era: the last year before 1900, then the first year of
\* each range
EraYears == <<1899, 1900, 1950, 1980, 2000, 2010>>

\* years int(book_published) can give outside of every range of era_ranges
OutsideYears == {0 - 380, 3000}

\* c copies of a read book of year y
RECURSIVE ReadRows(_, _, _)
ReadRows(y, c, id) ==
    IF c = 0 THEN <<>>
    ELSE <<Row(id + c, "read", "Ann", <<4>>, <<300>>, <<y>>)>> \o ReadRows(y, c - 1, id)

\* the read books of a shelf with counts[e] books of era e
RECURSIVE EraRows(_, _)
EraRows(counts, e) ==
    IF e > Len(EraYears) THEN <<>>
    ELSE ReadRows(EraYears[e], counts[e], 100 * e) \o EraRows(counts, e + 1)

\* the rows of the years of a set
RECURSIVE OutsideRows(_)
OutsideRows(years) ==
    IF years = {} THEN <<>>
    ELSE LET y == CHOOSE x \in years : TRUE
         IN  ReadRows(y, 1, 900 + Cardinality(years)) \o OutsideRows(years \ {y})

\* a library: the dated read books, a read book with no year and a dated
\* book that is not on the read shelf
EraLibrary(counts, outside) ==
    EraRows(counts, 1) \o OutsideRows(outside)
    \o <<Row(4, "read", "Cy", <<0>>, <<>>, <<>>), Row(3, "to-read", "Ann", <<0>>, <<>>, <<1999>>)>>

EraLibraries ==
    {EraLibrary(counts, outside) :
        counts \in [1..Len(EraYears) -> 0..MaxPerEra], outside \in SUBSET OutsideYears}

\* calculate_blend_metrics on the library of user 1, with the counts of
\* calculate_era_metrics before they are turned into percentages
ShelfMetrics ==
    /\ pc = "shelf_metrics"
    /\ combined_results' =
          <<[metrics |-> calculate_blend_metrics(user_books[1][1], user_books[2][1]),
             user1_era_dist |-> era_dist(filter_shelf_books(user_books[1][1], "read"))]>>
    /\ pc' = "shelf_done"
    /\ UNCHANGED <<error, rssVars, empty_page_count, parserVars, insightVars, info_future, books_future,
                   user_info, user_books, quality, ai_calls, ai_insights>>

InitShelf ==
    /\ pc = "shelf_metrics"
    /\ error = ""
    /\ RssIdle
    /\ InsightIdle
    /\ info_future = <<>>
    /\ books_future = <<>>
    /\ user_info = <<>>
    /\ \E l \in EraLibraries :
          user_books = (1 :> <<l>>) @@ (2 :> <<EraLibrary([e \in 1..Len(EraYears) |-> 1], {})>>)
    /\ quality = <<>>
    /\ ai_calls = 0
    /\ ai_insights = <<>>
    /\ combined_results = <<>>

NextShelf == ShelfMetrics

SpecShelf == InitShelf /\ [][NextShelf]_vars

\* ---- properties of the era and year metrics ----
\* the publication years of the dated books of user 1's read shelf
DatedRead == DropNa(filter_shelf_books(Lib(1), "read"), "book_published")

\* C18: for a user with N > 0 dated read-shelf books the six era percentages,
\* each rounded to one decimal, sum to within 0.1 of 100; for N = 0 all six
\* are 0.
C18_EraPercentagesSumTo100 ==
    pc = "shelf_done" =>
        LET pct == combined_results[1].metrics.user1_era_distribution IN
        IF Len(DatedRead) > 0
          THEN Abs(SeqSum(pct) - 1000) <= 1
          ELSE \A e \in 1..Len(pct) : pct[e] = 0

\* C19: every read-shelf book with a publication year, whatever the year, is
\* counted in exactly one of the six era buckets, so the six counts sum to
\* the number of dated read-shelf books.
C19_EveryDatedBookInOneBucket ==
    pc = "shelf_done" => SeqSum(combined_results[1].user1_era_dist) = Len(DatedRead)

\* C20: the reported mean publication year of the read shelf is the mean of
\* the years that are present, rounded to the nearest integer, and null when
\* there are none.
C20_MeanYearRoundedToNearest ==
    pc = "shelf_done" =>
        combined_results[1].metrics.user1_avg_pub_year =
            IF Len(DatedRead) = 0 THEN <<>>
            ELSE <<RoundDiv(SeqSum(DatedRead), Len(DatedRead))>>

\* ---- blend_two_users: failures of single fetches ----
\* C21: blend_two_users fails only when no data could be fetched for both
\* users; whenever the library of each user was obtained (and, say, a
\* user-info fetch failed) it returns a result instead of failing.
C21_PartialDataStillReturns ==
    (Finished /\ \A u \in Users : books_future[u].state = "done" /\ Len(books_future[u].books) > 0)
        => (pc = "done" /\ combined_results # <<>>)

\* ------------------------------ goodreads_parser.py: the HTML paginator ----
\* the number of full pages a shelf can hold
MaxParserPages == 1

\* get_all_goodreads_user_books, line 439: the page length that ends the loop
ShortPageThreshold == 90

\* the user the caller asks for, and the id written into the URL of line 326
CallerUserId == "42944663"

FixedUserId == "129990632"

\* single_shelf of lines 320 and 392, in the order of the lists
ParserShelves == <<"read", "currently-reading", "to-read">>

ParserScopes == {"all", "read", "currently-reading", "to-read"}

\* the number of rows of the shelf's table page p, for a shelf served in
\* pages of PageSize: a short page (or a failure) is the last one that has rows
PageLengths(p, history) ==
    IF \E i \in 1..Len(history) : history[i].size < PageSize THEN {0}
    ELSE {0, 37, 95} \cup (IF p <= MaxParserPages THEN {PageSize} ELSE {})

\* what the transport can answer to a request for a table page: a failure,
\* or a table of n rows whose header may have a column named shelf
ParserResponses(p, history) ==
    {[status |-> k, size |-> 0, shelf_column |-> <<>>] : k \in HtmlFailureKinds}
    \cup {[status |-> "ok", size |-> n, shelf_column |-> <<>>] : n \in PageLengths(p, history)}
    \cup {[status |-> "ok", size |-> n, shelf_column |-> <<"favorites">>] :
             n \in PageLengths(p, history) \cap {37}}

\* fetch_goodreads_data_as_df: the rows of the page served for the user and
\* shelf of the URL, the value of a shelf column kept with each row
raw_df(resp, user_id, shelf_name, page_num) ==
    [i \in 1..resp.size |->
        [goodreads_id |-> page_num * 1000 + i, owner |-> user_id, on_shelf |-> shelf_name,
         shelf |-> resp.shelf_column]]

\* fetch_goodreads_data_as_df, line 177: a table without the header row
ParserRaises(resp) == resp.status = "no_header"

\* get_goodreads_user_books_by_page, lines 352-368: a specific shelf
by_page_single(resp, user_id, page_num, shelf_name) ==
    IF resp.status # "ok" THEN <<>>
    ELSE LET raw == raw_df(resp, user_id, shelf_name, page_num)
         IN  [i \in 1..Len(raw) |->
                [raw[i] EXCEPT !.shelf = IF raw[i].shelf # <<>> THEN raw[i].shelf ELSE <<shelf_name>>]]

\* get_goodreads_user_books_by_page, lines 323-337: one shelf of scope 'all'
by_page_all(resp, page_num, single_shelf) ==
    IF resp.status # "ok" THEN <<>>
    ELSE LET raw == raw_df(resp, FixedUserId, single_shelf, page_num)
         IN  [i \in 1..Len(raw) |-> [raw[i] EXCEPT !.shelf = <<single_shelf>>]]

\* what a request is addressed to
Request(user_id, shelf_name, page_num) ==
    [user_id |-> user_id, shelf |-> shelf_name, page |-> page_num]

\* the responses served so far for the shelf being paginated
ShelfHistory == SubSeq(served, Len(served) - (page - 1) + 1, Len(served))

\* get_all_goodreads_user_books, lines 427-442: one iteration of the while
\* loop of a shelf; when the loop ends, the pages are combined (444-451) and,
\* for scope 'all', the loop over the shelves goes on or returns (393-416)
ParserFetchPage ==
    /\ pc = "parser_loop"
    /\ LET shelf_name == Head(parser.shelves) IN
       \E resp \in ParserResponses(page, ShelfHistory) :
        LET page_books == by_page_single(resp, parser.user_id, page, shelf_name)
            all_books == IF page_books = <<>> THEN all_dfs ELSE Append(all_dfs, page_books)
            shelf_ends == page_books = <<>> \/ Len(page_books) < ShortPageThreshold
            shelf_books == concat(all_books)
            all_shelf_books == IF shelf_books = <<>> THEN parser.all_shelf_books
                               ELSE Append(parser.all_shelf_books, shelf_books)
        IN
        /\ requested' = Append(requested, Request(parser.user_id, shelf_name, page))
        /\ served' = Append(served, resp)
        /\ IF ParserRaises(resp)
             THEN /\ pc' = "raised"
                  /\ error' = "AttributeError"
                  /\ UNCHANGED <<page, all_dfs, result, parser>>
           ELSE IF ~shelf_ends
             THEN /\ page' = page + 1
                  /\ all_dfs' = all_books
                  /\ UNCHANGED <<pc, error, result, parser>>
           ELSE IF parser.scope = "all" /\ Len(parser.shelves) > 1
             THEN /\ page' = 1
                  /\ all_dfs' = <<>>
                  /\ parser' = [parser EXCEPT !.shelves = Tail(parser.shelves),
                                              !.all_shelf_books = all_shelf_books]
                  /\ UNCHANGED <<pc, error, result>>
           ELSE /\ result' = IF parser.scope = "all" THEN concat(all_shelf_books) ELSE shelf_books
                /\ all_dfs' = all_books
                /\ parser' = [parser EXCEPT !.all_shelf_books = all_shelf_books]
                /\ pc' = "done"
                /\ UNCHANGED <<page, error>>
    /\ UNCHANGED <<full_df, sort_index, empty_page_count, blendVars, insightVars>>

\* get_goodreads_user_books_by_page with shelf 'all': one pass of the loop
\* over the shelves, and the return after the last
ParserByPageAll ==
    /\ pc = "by_page_all"
    /\ LET single_shelf == Head(parser.shelves) IN
       \E resp \in ParserResponses(page, <<>>) :
        LET clean_df == by_page_all(resp, page, single_shelf)
            all_books == IF clean_df = <<>> THEN all_dfs ELSE Append(all_dfs, clean_df)
        IN
        /\ requested' = Append(requested, Request(FixedUserId, single_shelf, page))
        /\ served' = Append(served, resp)
        /\ IF ParserRaises(resp)
             THEN /\ pc' = "raised"
                  /\ error' = "AttributeError"
                  /\ UNCHANGED <<all_dfs, result, parser>>
           ELSE /\ all_dfs' = all_books
                /\ parser' = [parser EXCEPT !.shelves = Tail(parser.shelves)]
                /\ IF Len(parser.shelves) > 1
                     THEN UNCHANGED <<pc, result>>
                     ELSE result' = concat(all_books) /\ pc' = "done"
                /\ UNCHANGED error
    /\ UNCHANGED <<page, full_df, sort_index, empty_page_count, blendVars, insightVars>>

\* get_goodreads_user_books_by_page with a specific shelf
ParserByPageSingle ==
    /\ pc = "by_page"
    /\ \E resp \in ParserResponses(page, <<>>) :
        /\ requested' = Append(requested, Request(parser.user_id, parser.scope, page))
        /\ served' = Append(served, resp)
        /\ IF ParserRaises(resp)
             THEN /\ pc' = "raised"
                  /\ error' = "AttributeError"
                  /\ UNCHANGED result
             ELSE /\ result' = by_page_single(resp, parser.user_id, page, parser.scope)
                  /\ pc' = "done"
                  /\ UNCHANGED error
    /\ UNCHANGED <<page, all_dfs, full_df, sort_index, empty_page_count, blendVars, insightVars,
                   parser>>

\* a call of get_all_goodreads_user_books or of
\* get_goodreads_user_books_by_page (page 1) for a user and a scope
InitParser ==
    /\ error = ""
    /\ page = 1
    /\ all_dfs = <<>>
    /\ full_df = <<>>
    /\ sort_index = <<>>
    /\ result = <<>>
    /\ requested = <<>>
    /\ served = <<>>
    /\ empty_page_count = 0
    /\ BlendIdle
    /\ InsightIdle
    /\ \E scope \in ParserScopes : \E whole \in BOOLEAN :
          /\ pc = IF whole THEN "parser_loop" ELSE IF scope = "all" THEN "by_page_all" ELSE "by_page"
          /\ parser = [user_id |-> CallerUserId, scope |-> scope, whole |-> whole,
                       shelves |-> IF scope = "all" THEN ParserShelves ELSE <<scope>>,
                       all_shelf_books |-> <<>>]

NextParser == ParserFetchPage \/ ParserByPageAll \/ ParserByPageSingle

SpecParser == InitParser /\ [][NextParser]_vars

\* ---- properties of the HTML paginator ----
\* C22: the canonical shelf-priority ordering is the last step of every
\* library build, for scope "all" and for a single shelf alike; no build
\* returns its records in plain fetch order.
C22_BuildEndsWithShelfOrdering ==
    (pc = "done" /\ parser.whole) =>
        \A i, j \in 1..Len(result) :
            i < j => shelf_order(result[i].shelf[1]) <= shelf_order(result[j].shelf[1])

\* C23: for a build with a specific shelf as scope, the shelf of every
\* returned record is the requested shelf, also when the fetched row embeds
\* another shelf value or none.
C23_RequestedShelfOverridesRow ==
    (pc = "done" /\ parser.scope # "all") =>
        \A i \in 1..Len(result) : result[i].shelf = <<parser.scope>>

\* C27: the single-shelf paginator stops after the first page with strictly
\* fewer than 100 records and goes on to the next page only after a full page.
C27_StopsAfterFirstShortPage ==
    (parser.whole /\ parser.scope # "all") =>
        \A i \in 1..Len(served) : served[i].size < PageSize => i = Len(served)

\* C30: every page request made while fetching the books of a user is
\* addressed to that user, and no returned record comes from a request made
\* for another user id.
C30_RequestsAddressTheCaller ==
    /\ \A i \in 1..Len(requested) : requested[i].user_id = parser.user_id
    /\ \A i \in 1..Len(result) : result[i].owner = parser.user_id

\* ---- the genres component and the link of a record ----
\* C24: the genres component is 0 whenever user1_preferences or
\* user2_preferences of the genre signal is empty, whatever shared_genres
\* holds; otherwise it is min(1, |shared| / min(|user1|, |user2|)).
C24_EmptyPreferenceListGivesZeroGenres ==
    pc = "scored" =>
        LET n1 == Cardinality(ai_insights[1].user1_preferences)
            n2 == Cardinality(ai_insights[1].user2_preferences)
            shared == Cardinality(ai_insights[1].shared_genres)
            least == IF n1 <= n2 THEN n1 ELSE n2
        IN  combined_results[1].blend.components.genres =
               IF least = 0 THEN 0
               ELSE IF shared >= least THEN 1000
               ELSE RoundDiv(1000 * shared, least)

\* C26: in every record of the feed parser, link is the book URL built from
\* that record's final book_id, also when the nested book element carries an
\* id that differs from the item's book_id field.
C26_LinkBuiltFromFinalBookId ==
    pc = "done" => \A i \in 1..Len(result) : result[i].link = result[i].book_id

\* ---- the oldest and the longest book ----
ReadShelf == filter_shelf_books(Lib(1), "read")

\* the first row of the read shelf, in the order of the library, whose field
\* has the value
FirstWith(field, value) ==
    ReadShelf[CHOOSE i \in 1..Len(ReadShelf) :
                 /\ ReadShelf[i][field] = <<value>>
                 /\ \A j \in 1..(i - 1) : ReadShelf[j][field] # <<value>>]

\* C25: the oldest-book detail is the first record, in the library's order,
\* among the read-shelf records whose year is the minimum; the longest-book
\* detail is the first among those whose page count is the maximum; both are
\* null when no read-shelf record has the field.
C25_FirstRecordWinsTies ==
    pc = "shelf_done" =>
        LET years == DropNa(ReadShelf, "book_published")
            pages == DropNa(ReadShelf, "num_pages")
            oldest == combined_results[1].metrics.user1_oldest_book_details
            longest == combined_results[1].metrics.user1_longest_book_details
        IN  /\ IF years = <<>> THEN oldest = <<>>
               ELSE LET least == CHOOSE y \in {years[k] : k \in 1..Len(years)} : \A z \in {years[k] : k \in 1..Len(years)} : y <= z
                    IN  oldest = <<[year |-> least, book_id |-> FirstWith("book_published", least).book_id]>>
            /\ IF pages = <<>> THEN longest = <<>>
               ELSE LET most == CHOOSE y \in {pages[k] : k \in 1..Len(pages)} : \A z \in {pages[k] : k \in 1..Len(pages)} : y >= z
                    IN  longest = <<[pages |-> most, book_id |-> FirstWith("num_pages", most).book_id]>>

\* two read books share the earliest year and all read books with a page
\* count share it; the details name the first of each
C25_Witness ==
    /\ pc = "shelf_done"
    /\ Len(ReadShelf) >= 4
    /\ ReadShelf[1].book_published = ReadShelf[2].book_published
    /\ ReadShelf[1].book_id # ReadShelf[2].book_id
    /\ combined_results[1].metrics.user1_oldest_book_details
          = <<[year |-> ReadShelf[1].book_published[1], book_id |-> ReadShelf[1].book_id]>>
    /\ combined_results[1].metrics.user1_longest_book_details
          = <<[pages |-> 300, book_id |-> ReadShelf[1].book_id]>>

\* ------------------------------- clean_data: the cover URL of a row ----
\* the largest number of size tokens in one cover URL
MaxSizeTokens == 2

\* a URL is the sequence of its pieces: a run of digits, a word, a dot, an
\* underscore, or a size token such as SX318 (S, X or Y, digits)
SizeTokens == {"SX318", "SY475", "SY75", "SX50"}

DigitRuns == {"6148028", "36072", "13496"}

\* Goodreads names a cover file by the number of the book
CoverBases == DigitRuns

CoverExtensions == {"jpg"}

\* _SX318_SY475_ : the tokens between underscores
RECURSIVE TokenPart(_)
TokenPart(toks) ==
    IF toks = <<>> THEN <<"_">> ELSE <<"_", Head(toks)>> \o TokenPart(Tail(toks))

\* .../books/<base>._SY75_.jpg, and .../books/<base>.jpg without a token
CoverUrl(base, toks, ext) ==
    <<"books/", base>>
    \o (IF toks = <<>> THEN <<>> ELSE <<".">> \o TokenPart(toks))
    \o <<".", ext>>

CoverUrls ==
    {CoverUrl(b, toks, e) :
        b \in CoverBases, e \in CoverExtensions,
        toks \in UNION {[1..n -> SizeTokens] : n \in 0..MaxSizeTokens}}

At(url, i) == IF i <= Len(url) THEN url[i] ELSE ""

\* re.sub(r'(\d+)\.(_S[XY]\d+_)(\.jpg)', r'\1\3', url), from position i on
RECURSIVE SubDottedToken(_, _)
SubDottedToken(url, i) ==
    IF i > Len(url) THEN <<>>
    ELSE IF /\ At(url, i) \in DigitRuns
            /\ At(url, i + 1) = "."
            /\ At(url, i + 2) = "_"
            /\ At(url, i + 3) \in SizeTokens
            /\ At(url, i + 4) = "_"
            /\ At(url, i + 5) = "."
            /\ At(url, i + 6) = "jpg"
      THEN <<url[i], ".", "jpg">> \o SubDottedToken(url, i + 7)
      ELSE <<url[i]>> \o SubDottedToken(url, i + 1)

\* re.sub(r'_S[XY]\d+_', '', url), from position i on: a match consumes its
\* closing underscore
RECURSIVE SubToken(_, _)
SubToken(url, i) ==
    IF i > Len(url) THEN <<>>
    ELSE IF At(url, i) = "_" /\ At(url, i + 1) \in SizeTokens /\ At(url, i + 2) = "_"
      THEN SubToken(url, i + 3)
      ELSE <<url[i]>> \o SubToken(url, i + 1)

\* the two rewrites in sequence (goodreads_parser.py 28 and 31,
\* helper_functions.py 160 and 161)
clean_cover(url) == SubToken(SubDottedToken(url, 1), 1)

\* clean_data on the cover column of the frame
clean_data(df) == [i \in 1..Len(df) |-> [df[i] EXCEPT !.cover = clean_cover(df[i].cover)]]

CleanData ==
    /\ pc = "clean_data"
    /\ result' = clean_data(full_df)
    /\ pc' = "cleaned"
    /\ UNCHANGED <<error, page, all_dfs, full_df, sort_index, requested, served>>
    /\ UNCHANGED notRss

InitCover ==
    /\ pc = "clean_data"
    /\ error = ""
    /\ page = 1
    /\ all_dfs = <<>>
    /\ full_df \in {<<[goodreads_id |-> 1, cover |-> u]>> : u \in CoverUrls}
    /\ sort_index = <<>>
    /\ result = <<>>
    /\ requested = <<>>
    /\ served = <<>>
    /\ empty_page_count = 0
    /\ parser = <<>>
    /\ BlendIdle
    /\ InsightIdle

NextCover == CleanData

SpecCover == InitCover /\ [][NextCover]_vars

\* C28: cover URL normalization maps any two URLs that differ only in their
\* size tokens, a double token included, to the same output, leaves no size
\* token or fragment of one, and returns a URL without size token unchanged:
\* the output is the URL with its token part taken out.
C28_CoverUrlNormalized ==
    pc = "cleaned" =>
        \E b \in CoverBases, e \in CoverExtensions :
            \E toks \in UNION {[1..n -> SizeTokens] : n \in 0..MaxSizeTokens} :
                /\ full_df[1].cover = CoverUrl(b, toks, e)
                /\ result[1].cover = CoverUrl(b, <<>>, e)

\* --------------------------------------- the three pagination loops ----
\* rss_feed_books.fetch_users_books, helper_functions.get_all_goodreads_user_books
\* and goodreads_parser.get_all_goodreads_user_books, each on a finite shelf
InitPaginate == Init \/ InitHelper \/ (InitParser /\ parser.whole)

NextPaginate == FetchPage \/ Finish \/ HelperFetchPage \/ HelperReturn \/ ParserFetchPage

\* the loops are sequential code: every request is answered (by a page or by
\* a failure) and the statement after it runs
SpecPaginate == InitPaginate /\ [][NextPaginate]_vars /\ WF_vars(NextPaginate)

Stopped == pc \in {"done", "raised"}

\* C29: pagination always terminates for a finite shelf: each pagination
\* loop eventually stops (it returns or raises), after finitely many page
\* requests, also when the number of records is a multiple of 100 and when
\* single pages fail.
C29_PaginationTerminates == <>Stopped

\* a shelf of exactly 100 records: a full page, then the empty page that
\* ends the loop
C29_Witness ==
    /\ pc = "done"
    /\ Len(served) = 2
    /\ served[1] = OkResponse(FullPage(1))
    /\ served[2] = OkResponse(<<>>)
    /\ requested = <<1, 2>>

====
